---- MODULE Spec2Model ----
(***************************************************************************)
(* Model of the YITRO CRM server (src/server/index-simple.ts): the five    *)
(* HTTP handlers over the tables auth_users, auth_sessions, leads,         *)
(* accounts, active_deals and contacts.  Every handler is split at its     *)
(* awaited store calls: one action runs one store call together with the   *)
(* synchronous code that follows it up to the next await.                  *)
(*                                                                         *)
(* Strings that the code transforms (emails) are sequences of character    *)
(* codes; time is counted in units of 12 hours.                            *)
(***************************************************************************)
EXTENDS Integers, Sequences, FiniteSets, TLC

\* ------------------------------------------------------------------ bounds
MaxTime == 3        \* the clock runs from 1 to MaxTime
MaxSessions == 2    \* sign-ins that get as far as the session INSERT
MaxCreated == 2     \* users created through POST /api/admin/users
NumReqs == 2        \* requests that can be in flight together
MaxRows == 2        \* rows per business table are 0 .. MaxRows + 2 (SpecMetrics)

\* ------------------------------------------------------- program constants
TTL == 2            \* expiresIn: '24h', in units of 12 hours
LIMIT == 10         \* ORDER BY createdAt DESC LIMIT 10
NULL == 0           \* SQL NULL / JavaScript undefined for ids and timestamps

Reqs == 1 .. NumReqs

\* the one slot used when requests do not overlap
SeqReqs == {1}

\* ------------------------------------------------------------------ strings
\* "r@y", "u@y", "U@y", "a@x", "A@x", "b@x", "z@x" as character codes
EmailAdmin == <<114, 64, 121>>
EmailUser == <<117, 64, 121>>
EmailUserUpper == <<85, 64, 121>>
EmailNewLower == <<97, 64, 120>>
EmailNewUpper == <<65, 64, 120>>
EmailOther == <<98, 64, 120>>
EmailUnknown == <<122, 64, 120>>

\* the empty string; an absent (undefined) body field is falsy in the same way
Empty == <<>>

\* String.prototype.toLowerCase on the character codes
toLowerCase(s) == [i \in DOMAIN s |-> IF s[i] \in 65 .. 90 THEN s[i] + 32 ELSE s[i]]

\* !x for a body field holding an email (character codes)
Falsy(x) == x = Empty

\* !x for a body field holding a plain string
FalsyStr(x) == x = ""

\* bcrypt.hash(password, 10) and bcrypt.compare(password, hash)
bcryptHash(password) == <<"$2b$10$", password>>

bcryptCompare(password, hash) == hash = bcryptHash(password)

\* ------------------------------------------------------------------- tokens
\* jwt.sign(tokenData, secret, {expiresIn: '24h'}) at time t
jwtSign(user, t) ==
    [userId |-> user.id, email |-> user.email, role |-> user.role,
     iat |-> t, exp |-> t + TTL, sig |-> "secret"]

\* jwt.verify comparing the clock with the time of issue instead of the expiry
jwtVerify_IssueTime(token, t) == token.sig = "secret" /\ t <= token.iat

\* jwt.verify(token, secret) at time t does not throw
jwtVerify(token, t) == token.sig = "secret" /\ t < token.exp

\* a token signed with another key, claiming to be the seeded admin
ForgedToken ==
    [userId |-> 1, email |-> EmailAdmin, role |-> "admin",
     iat |-> 1, exp |-> MaxTime + TTL + 1, sig |-> "forged"]

\* ------------------------------------------------------------------- state
VARIABLES
    users,          \* auth_users: set of rows
    sessions,       \* auth_sessions: set of rows
    leads,          \* leads: set of rows
    accounts,       \* accounts: set of rows
    active_deals,   \* active_deals: set of rows
    contacts,       \* contacts: set of rows
    now,            \* Date.now()
    sessCount,      \* session ids generated so far ('sess_' + ...)
    userCount,      \* user ids generated so far ('user_' + ...)
    req,            \* the requests: position in the handler, locals, response
    issued,         \* sign-in responses the clients hold: token and profile
    pre,            \* auth_users and auth_sessions when the latest request arrived
    client,         \* the AuthProvider of one browser page: its state and its pending fetches
    localStorage    \* localStorage 'authToken' of that browser

vars == <<users, sessions, leads, accounts, active_deals, contacts, now,
          sessCount, userCount, req, issued, pre, client, localStorage>>

tables == <<leads, accounts, active_deals, contacts>>

\* ------------------------------------------------------------ request data
NoAuth == [scheme |-> "none", token |-> <<>>]

BasicAuth == [scheme |-> "basic", token |-> <<>>]

Bearer(t) == [scheme |-> "bearer", token |-> <<t>>]

NoBody == [email |-> Empty, displayName |-> "", password |-> "", role |-> "undefined"]

NoOut == [user |-> <<>>, token |-> <<>>, users |-> <<>>, metrics |-> <<>>,
          activities |-> <<>>, userRole |-> ""]

IdleReq ==
    [kind |-> "idle", pc |-> "idle", auth |-> NoAuth, body |-> NoBody,
     user |-> <<>>, token |-> <<>>, sessionId |-> NULL, userId |-> NULL,
     at |-> NULL, status |-> 0, message |-> "", out |-> NoOut, storeError |-> FALSE]

\* res.status(status).json({success, message, ...out})
Reply(q, status, message, out) ==
    [q EXCEPT !.pc = "done", !.status = status, !.message = message, !.out = out]

Free(r) == req[r].pc \in {"idle", "done"}

Quiescent == \A r \in Reqs : Free(r)

\* the Authorization headers a client can send
AuthChoices ==
    {NoAuth, BasicAuth} \cup {Bearer(t) : t \in {i.token : i \in issued} \cup {ForgedToken}}

\* !authHeader || !authHeader.startsWith('Bearer ')
NoBearer(auth) == auth.scheme # "bearer"

\* the seeded accounts: an administrator and a regular user
SeedUsers ==
    {[id |-> 1, email |-> EmailAdmin, displayName |-> "Admin",
      passwordHash |-> bcryptHash("admin123"), role |-> "admin",
      emailVerified |-> 1, createdAt |-> 1, lastLogin |-> NULL],
     [id |-> 2, email |-> EmailUser, displayName |-> "User",
      passwordHash |-> bcryptHash("pw1"), role |-> "user",
      emailVerified |-> 1, createdAt |-> 1, lastLogin |-> NULL]}

\* ------------------------------------------------------------- store reads
\* first row of a result set, as db.get returns it
First(rows) ==
    IF rows = {} THEN <<>> ELSE <<CHOOSE u \in rows : \A v \in rows : u.id <= v.id>>

\* SELECT * FROM auth_users WHERE email = ?
findByEmail(email) == First({u \in users : u.email = email})

\* SELECT * FROM auth_users WHERE id = ?
findById(id) == First({u \in users : u.id = id})

\* the projection id, email, role, displayName
Profile(u) == [id |-> u.id, email |-> u.email, role |-> u.role, displayName |-> u.displayName]

\* the UPDATE matching no row
Deactivate_NoRow(rows, userId) == rows

\* UPDATE auth_sessions SET isActive = 0 WHERE userId = ? AND isActive = 1
Deactivate(rows, userId) ==
    {IF s.userId = userId /\ s.isActive = 1 THEN [s EXCEPT !.isActive = 0] ELSE s : s \in rows}

\* -------------------------------------------------- POST /api/auth/signin
\* the credentials tried: <<email, password>>
SigninBodies ==
    {<<Empty, "pw1">>, <<EmailAdmin, "">>, <<EmailAdmin, "admin123">>, <<EmailAdmin, "pw1">>,
     <<EmailUser, "pw1">>, <<EmailUserUpper, "pw1">>, <<EmailNewLower, "pw1">>,
     <<EmailUnknown, "pw1">>}

StartSignin(r, email, password) ==
    /\ Free(r)
    /\ sessCount + Cardinality({q \in Reqs : req[q].pc \in {"signin_get", "signin_update"}})
          < MaxSessions
    /\ LET q == [IdleReq EXCEPT !.kind = "signin", !.body.email = email,
                                !.body.password = password]
       IN  req' = [req EXCEPT ![r] =
                IF Falsy(email) \/ FalsyStr(password)
                THEN Reply(q, 400, "Email and password are required", NoOut)
                ELSE [q EXCEPT !.pc = "signin_get"]]
    /\ pre' = [users |-> users, sessions |-> sessions]
    /\ UNCHANGED <<users, sessions, tables, now, sessCount, userCount, issued, client, localStorage>>

\* the sessions cleared as soon as the user is found, before the password is compared
SigninGet_ClearsFirst(r) ==
    /\ req[r].pc = "signin_get"
    /\ LET user == findByEmail(toLowerCase(req[r].body.email))
       IN  /\ req' = [req EXCEPT ![r] =
                  IF user = <<>>
                  THEN Reply(@, 401, "Invalid credentials", NoOut)
                  ELSE IF ~bcryptCompare(req[r].body.password, user[1].passwordHash)
                  THEN Reply(@, 401, "Invalid credentials", NoOut)
                  ELSE [@ EXCEPT !.pc = "signin_update", !.user = user]]
           /\ sessions' = IF user = <<>> THEN sessions ELSE Deactivate(sessions, user[1].id)
    /\ UNCHANGED <<users, tables, now, sessCount, userCount, issued, pre, client, localStorage>>

\* a lookup whose answer tells an unknown email from a wrong password
SigninGet_TellsUnknown(r) ==
    /\ req[r].pc = "signin_get"
    /\ LET user == findByEmail(toLowerCase(req[r].body.email))
       IN  req' = [req EXCEPT ![r] =
                IF user = <<>>
                THEN Reply(@, 401, "User not found", NoOut)
                ELSE IF ~bcryptCompare(req[r].body.password, user[1].passwordHash)
                THEN Reply(@, 401, "Invalid credentials", NoOut)
                ELSE [@ EXCEPT !.pc = "signin_update", !.user = user]]
    /\ UNCHANGED <<users, sessions, tables, now, sessCount, userCount, issued, pre, client, localStorage>>

\* dbGet of the user, then bcrypt.compare (which reads no shared state)
SigninGet(r) ==
    /\ req[r].pc = "signin_get"
    /\ LET user == findByEmail(toLowerCase(req[r].body.email))
       IN  req' = [req EXCEPT ![r] =
                IF user = <<>>
                THEN Reply(@, 401, "Invalid credentials", NoOut)
                ELSE IF ~bcryptCompare(req[r].body.password, user[1].passwordHash)
                THEN Reply(@, 401, "Invalid credentials", NoOut)
                ELSE [@ EXCEPT !.pc = "signin_update", !.user = user]]
    /\ UNCHANGED <<users, sessions, tables, now, sessCount, userCount, issued, pre, client, localStorage>>

\* the deactivating UPDATE, then jwt.sign and the session id
SigninDeactivate(r) ==
    /\ req[r].pc = "signin_update"
    /\ sessions' = Deactivate(sessions, req[r].user[1].id)
    /\ sessCount' = sessCount + 1
    /\ req' = [req EXCEPT ![r] = [@ EXCEPT !.pc = "signin_insert",
                                           !.token = <<jwtSign(req[r].user[1], now)>>,
                                           !.sessionId = sessCount + 1]]
    /\ UNCHANGED <<users, tables, now, userCount, issued, pre, client, localStorage>>

\* the INSERT replacing the user's active rows (deactivation and insert in one statement)
InsertSession_Replacing(rows, q) ==
    Deactivate(rows, q.user[1].id)
    \cup {[id |-> q.sessionId, userId |-> q.user[1].id, tokenHash |-> q.token[1],
            expiresAt |-> q.token[1].exp, isActive |-> 1]}

\* the INSERT with isActive 0
InsertSession_Inactive(rows, q) ==
    rows \cup {[id |-> q.sessionId, userId |-> q.user[1].id, tokenHash |-> q.token[1],
                expiresAt |-> q.token[1].exp, isActive |-> 0]}

\* INSERT INTO auth_sessions (...) VALUES (..., 1)
InsertSession(rows, q) ==
    rows \cup {[id |-> q.sessionId, userId |-> q.user[1].id, tokenHash |-> q.token[1],
                expiresAt |-> q.token[1].exp, isActive |-> 1]}

SigninInsert(r) ==
    /\ req[r].pc = "signin_insert"
    /\ sessions' = InsertSession(sessions, req[r])
    /\ req' = [req EXCEPT ![r].pc = "signin_login"]
    /\ UNCHANGED <<users, tables, now, sessCount, userCount, issued, pre, client, localStorage>>

\* UPDATE auth_users SET lastLogin = ? WHERE id = ?
\* a lastLogin update without its WHERE id = ?
RecordLogin_EveryUser(rows, id, t) ==
    {[u EXCEPT !.lastLogin = t] : u \in rows}

RecordLogin(rows, id, t) ==
    {IF u.id = id THEN [u EXCEPT !.lastLogin = t] ELSE u : u \in rows}

\* the lastLogin UPDATE, then the 200 response
SigninLogin(r) ==
    /\ req[r].pc = "signin_login"
    /\ users' = RecordLogin(users, req[r].user[1].id, now)
    /\ LET out == [NoOut EXCEPT !.user = <<Profile(req[r].user[1])>>, !.token = req[r].token]
       IN  /\ req' = [req EXCEPT ![r] = Reply(@, 200, "Signed in successfully", out)]
           /\ issued' = issued \cup {[token |-> req[r].token[1], user |-> Profile(req[r].user[1])]}
    /\ UNCHANGED <<sessions, tables, now, sessCount, userCount, pre, client, localStorage>>

\* ------------------------------------------------------- GET /api/auth/me
StartMe(r, auth) ==
    /\ Free(r)
    /\ LET q == [IdleReq EXCEPT !.kind = "me", !.auth = auth, !.at = now]
       IN  req' = [req EXCEPT ![r] =
                IF NoBearer(auth)
                THEN Reply(q, 401, "No token provided", NoOut)
                ELSE IF ~jwtVerify(auth.token[1], now)
                THEN Reply(q, 401, "Invalid token", NoOut)
                ELSE [q EXCEPT !.pc = "me_get"]]
    /\ pre' = [users |-> users, sessions |-> sessions]
    /\ UNCHANGED <<users, sessions, tables, now, sessCount, userCount, issued, client, localStorage>>

\* a lookup that also asks for an active auth_sessions row holding the token
MeGet_ActiveSession(r) ==
    /\ req[r].pc = "me_get"
    /\ LET user == findById(req[r].auth.token[1].userId)
           live == \E x \in sessions : x.tokenHash = req[r].auth.token[1] /\ x.isActive = 1
       IN  req' = [req EXCEPT ![r] =
                IF user = <<>> \/ ~live
                THEN Reply(@, 401, "User not found", NoOut)
                ELSE Reply(@, 200, "", [NoOut EXCEPT !.user = <<Profile(user[1])>>])]
    /\ UNCHANGED <<users, sessions, tables, now, sessCount, userCount, issued, pre, client, localStorage>>

MeGet(r) ==
    /\ req[r].pc = "me_get"
    /\ LET user == findById(req[r].auth.token[1].userId)
       IN  req' = [req EXCEPT ![r] =
                IF user = <<>>
                THEN Reply(@, 401, "User not found", NoOut)
                ELSE Reply(@, 200, "", [NoOut EXCEPT !.user = <<Profile(user[1])>>])]
    /\ UNCHANGED <<users, sessions, tables, now, sessCount, userCount, issued, pre, client, localStorage>>

\* ------------------------------------------------ GET /api/dashboard/metrics
\* the createdBy filter left out for every role
whereClause_None(user) == FALSE

\* let whereClause = ''; if (user.role !== 'admin') whereClause = ' WHERE createdBy = ?'
whereClause(user) == user.role # "admin"

\* let params = []; if (user.role !== 'admin') params = [user.id]
params(user) == IF user.role # "admin" THEN <<user.id>> ELSE <<>>

\* the value sqlite3 binds to the i-th placeholder: a placeholder beyond the
\* parameters given stays unbound, which SQLite reads as NULL
Bind(ps, i) == IF i <= Len(ps) THEN ps[i] ELSE NULL

\* the SQL comparison a = b as a WHERE condition: never true of NULL
SqlEq(a, b) == a # NULL /\ b # NULL /\ a = b

\* FROM table${whereClause}, the placeholder of the clause being the i-th of the query
Select(table, where, ps, i) ==
    IF where THEN {row \in table : SqlEq(row.createdBy, Bind(ps, i))} ELSE table

\* SELECT COUNT(*) as count FROM table${whereClause}
Count(table, where, ps) == Cardinality(Select(table, where, ps, 1))

\* SELECT 'type' as type, ... as name, createdAt
Tag(type, rows) == {[type |-> type, name |-> row.id, createdAt |-> row.createdAt] : row \in rows}

\* ORDER BY createdAt DESC LIMIT n (createdAt is distinct over the rows)
RECURSIVE OrderDescLimit(_, _)
OrderDescLimit(rows, n) ==
    IF rows = {} \/ n = 0 THEN <<>>
    ELSE LET m == CHOOSE x \in rows : \A y \in rows : x.createdAt >= y.createdAt
         IN  <<m>> \o OrderDescLimit(rows \ {m}, n - 1)

\* the UNION ALL query of the recent activities
Activities(where, ps) ==
    OrderDescLimit(Tag("lead", Select(leads, where, ps, 1))
                   \cup Tag("account", Select(accounts, where, ps, 2))
                   \cup Tag("deal", Select(active_deals, where, ps, 3)), LIMIT)

StartMetrics(r, auth) ==
    /\ Free(r)
    /\ LET q == [IdleReq EXCEPT !.kind = "metrics", !.auth = auth, !.at = now]
       IN  req' = [req EXCEPT ![r] =
                IF NoBearer(auth)
                THEN Reply(q, 401, "Authentication required", NoOut)
                ELSE IF ~jwtVerify(auth.token[1], now)
                THEN Reply(q, 500, "Failed to fetch metrics", NoOut)
                ELSE [q EXCEPT !.pc = "metrics_get"]]
    /\ pre' = [users |-> users, sessions |-> sessions]
    /\ UNCHANGED <<users, sessions, tables, now, sessCount, userCount, issued, client, localStorage>>

MetricsGet(r) ==
    /\ req[r].pc = "metrics_get"
    /\ LET user == findById(req[r].auth.token[1].userId)
       IN  req' = [req EXCEPT ![r] =
                IF user = <<>>
                THEN Reply(@, 401, "User not found", NoOut)
                ELSE [@ EXCEPT !.pc = "metrics_count", !.user = user]]
    /\ UNCHANGED <<users, sessions, tables, now, sessCount, userCount, issued, pre, client, localStorage>>

\* the four counting queries of Promise.all
MetricsCount(r) ==
    /\ req[r].pc = "metrics_count"
    /\ LET w == whereClause(req[r].user[1])
           ps == params(req[r].user[1])
       IN  req' = [req EXCEPT ![r] = [@ EXCEPT !.pc = "metrics_activities",
                !.out.metrics = <<[leads |-> Count(leads, w, ps),
                                   accounts |-> Count(accounts, w, ps),
                                   deals |-> Count(active_deals, w, ps),
                                   contacts |-> Count(contacts, w, ps)]>>]]
    /\ UNCHANGED <<users, sessions, tables, now, sessCount, userCount, issued, pre, client, localStorage>>

MetricsActivities(r) ==
    /\ req[r].pc = "metrics_activities"
    /\ LET w == whereClause(req[r].user[1])
           ps == params(req[r].user[1])
       IN  req' = [req EXCEPT ![r] = Reply(@, 200, "",
                [req[r].out EXCEPT !.activities = Activities(w, ps),
                                   !.userRole = req[r].user[1].role])]
    /\ UNCHANGED <<users, sessions, tables, now, sessCount, userCount, issued, pre, client, localStorage>>

\* -------------------------------------------------- POST /api/admin/users
\* the role gate testing only that the caller exists
NotAdmin_OnlyMissing(found) == found = <<>>

\* !adminUser || adminUser.role !== 'admin'
NotAdmin(found) == found = <<>> \/ found[1].role # "admin"

\* const { ..., role = 'user' } = req.body
RoleOf(body) == IF body.role = "undefined" THEN "user" ELSE body.role

Body(email, displayName, password, role) ==
    [email |-> email, displayName |-> displayName, password |-> password, role |-> role]

\* the request bodies tried: complete ones, and ones with a field missing
CreateBodies ==
    {Body(EmailNewLower, "New", "pw1", ro) : ro \in {"undefined", "admin", "root"}}
    \cup {Body(e, "New", "pw1", "user") : e \in {EmailNewUpper, EmailOther, EmailUserUpper}}
    \cup {Body(Empty, "New", "pw1", "user"), Body(EmailNewLower, "", "pw1", "user"),
          Body(EmailNewLower, "New", "", "user")}

StartCreate(r, auth, body) ==
    /\ Free(r)
    /\ \/ userCount + Cardinality({q \in Reqs : req[q].pc \in {"create_admin", "create_exists"}})
             < Cardinality(SeedUsers) + MaxCreated
       \/ findByEmail(toLowerCase(body.email)) # <<>>
    /\ LET q == [IdleReq EXCEPT !.kind = "create", !.auth = auth, !.body = body, !.at = now]
       IN  req' = [req EXCEPT ![r] =
                IF NoBearer(auth)
                THEN Reply(q, 401, "Authentication required", NoOut)
                ELSE IF ~jwtVerify(auth.token[1], now)
                THEN Reply(q, 500, "Failed to create user", NoOut)
                ELSE [q EXCEPT !.pc = "create_admin"]]
    /\ pre' = [users |-> users, sessions |-> sessions]
    /\ UNCHANGED <<users, sessions, tables, now, sessCount, userCount, issued, client, localStorage>>

\* dbGet of the caller, the role gate and the validation of the body
CreateGetAdmin(r) ==
    /\ req[r].pc = "create_admin"
    /\ LET adminUser == findById(req[r].auth.token[1].userId)
           body == req[r].body
       IN  req' = [req EXCEPT ![r] =
                IF NotAdmin(adminUser)
                THEN Reply(@, 403, "Admin access required", NoOut)
                ELSE IF Falsy(body.email) \/ FalsyStr(body.displayName) \/ FalsyStr(body.password)
                THEN Reply(@, 400, "Email, display name and password are required", NoOut)
                ELSE [@ EXCEPT !.pc = "create_exists"]]
    /\ UNCHANGED <<users, sessions, tables, now, sessCount, userCount, issued, pre, client, localStorage>>

\* the existence check looking the email up as sent, not lower-cased
CreateExists_AsSent(r) ==
    /\ req[r].pc = "create_exists"
    /\ LET existingUser == findByEmail(req[r].body.email)
       IN  IF existingUser # <<>>
           THEN /\ req' = [req EXCEPT ![r] = Reply(@, 400, "User already exists", NoOut)]
                /\ UNCHANGED userCount
           ELSE /\ req' = [req EXCEPT ![r] = [@ EXCEPT !.pc = "create_insert",
                                                       !.userId = userCount + 1]]
                /\ userCount' = userCount + 1
    /\ UNCHANGED <<users, sessions, tables, now, sessCount, issued, pre, client, localStorage>>

\* dbGet of an existing user with the email, then bcrypt.hash and the user id
CreateExists(r) ==
    /\ req[r].pc = "create_exists"
    /\ LET existingUser == findByEmail(toLowerCase(req[r].body.email))
       IN  IF existingUser # <<>>
           THEN /\ req' = [req EXCEPT ![r] = Reply(@, 400, "User already exists", NoOut)]
                /\ UNCHANGED userCount
           ELSE /\ req' = [req EXCEPT ![r] = [@ EXCEPT !.pc = "create_insert",
                                                       !.userId = userCount + 1]]
                /\ userCount' = userCount + 1
    /\ UNCHANGED <<users, sessions, tables, now, sessCount, issued, pre, client, localStorage>>

\* the row of INSERT INTO auth_users (...) VALUES (?, ?, ?, ?, ?, 1, ?, ?)
NewUser(q, t) ==
    [id |-> q.userId, email |-> toLowerCase(q.body.email), displayName |-> q.body.displayName,
     passwordHash |-> bcryptHash(q.body.password), role |-> RoleOf(q.body),
     emailVerified |-> 1, createdAt |-> t, lastLogin |-> NULL]

\* the INSERT, then the 200 response
CreateInsert(r) ==
    /\ req[r].pc = "create_insert"
    /\ LET row == NewUser(req[r], now)
       IN  /\ users' = users \cup {row}
           /\ req' = [req EXCEPT ![r] = Reply(@, 200, "User created successfully",
                           [NoOut EXCEPT !.user = <<Profile(row)>>])]
    /\ UNCHANGED <<sessions, tables, now, sessCount, userCount, issued, pre, client, localStorage>>

\* --------------------------------------------------- GET /api/admin/users
\* the projection id, email, displayName, role, emailVerified, createdAt, lastLogin
Listed(u) ==
    [id |-> u.id, email |-> u.email, displayName |-> u.displayName, role |-> u.role,
     emailVerified |-> u.emailVerified, createdAt |-> u.createdAt, lastLogin |-> u.lastLogin]

\* the orders ORDER BY createdAt DESC can return the rows in
OrderDesc(rows) ==
    {s \in [1 .. Cardinality(rows) -> rows] :
        /\ \A i, j \in DOMAIN s : i # j => s[i] # s[j]
        /\ \A i, j \in DOMAIN s : i < j => s[i].createdAt >= s[j].createdAt}

StartList(r, auth) ==
    /\ Free(r)
    /\ LET q == [IdleReq EXCEPT !.kind = "list", !.auth = auth, !.at = now]
       IN  req' = [req EXCEPT ![r] =
                IF NoBearer(auth)
                THEN Reply(q, 401, "Authentication required", NoOut)
                ELSE IF ~jwtVerify(auth.token[1], now)
                THEN Reply(q, 500, "Failed to fetch users", NoOut)
                ELSE [q EXCEPT !.pc = "list_admin"]]
    /\ pre' = [users |-> users, sessions |-> sessions]
    /\ UNCHANGED <<users, sessions, tables, now, sessCount, userCount, issued, client, localStorage>>

ListGetAdmin(r) ==
    /\ req[r].pc = "list_admin"
    /\ LET adminUser == findById(req[r].auth.token[1].userId)
       IN  req' = [req EXCEPT ![r] =
                IF NotAdmin(adminUser)
                THEN Reply(@, 403, "Admin access required", NoOut)
                ELSE [@ EXCEPT !.pc = "list_query"]]
    /\ UNCHANGED <<users, sessions, tables, now, sessCount, userCount, issued, pre, client, localStorage>>

ListQuery(r) ==
    /\ req[r].pc = "list_query"
    /\ \E s \in OrderDesc({Listed(u) : u \in users}) :
          req' = [req EXCEPT ![r] = Reply(@, 200, "", [NoOut EXCEPT !.users = s])]
    /\ UNCHANGED <<users, sessions, tables, now, sessCount, userCount, issued, pre, client, localStorage>>

\* ------------------------------------------------------ rejected store calls
\* the positions at which a handler awaits dbGet, dbRun or dbQuery
StoreCalls ==
    {"signin_get", "signin_update", "signin_insert", "signin_login", "me_get",
     "metrics_get", "metrics_count", "metrics_activities",
     "create_admin", "create_exists", "create_insert", "list_admin", "list_query"}

\* the catch block of each handler
Catch(q) ==
    CASE q.kind = "signin"  -> Reply(q, 500, "Internal server error", NoOut)
      [] q.kind = "me"      -> Reply(q, 401, "Invalid token", NoOut)
      [] q.kind = "metrics" -> Reply(q, 500, "Failed to fetch metrics", NoOut)
      [] q.kind = "create"  -> Reply(q, 500, "Failed to create user", NoOut)
      [] q.kind = "list"    -> Reply(q, 500, "Failed to fetch users", NoOut)

\* the store call the request awaits calls back with an error: the promise is
\* rejected, the statement has written nothing, the catch block answers
StoreReject(r) ==
    /\ req[r].pc \in StoreCalls
    /\ req' = [req EXCEPT ![r] = [Catch(@) EXCEPT !.storeError = TRUE]]
    /\ UNCHANGED <<users, sessions, tables, now, sessCount, userCount, issued, pre, client, localStorage>>

\* ------------------------------------------------- AuthProvider (the client)
\* the request slots that carry the fetches of the page
MeSlot == 1

SigninSlot == 2

\* useState(null), useState(null), useState(true); no effect has run, no fetch is pending
ClientInit ==
    [mounted |-> FALSE, user |-> <<>>, token |-> <<>>, loading |-> TRUE,
     startup |-> "none", storedToken |-> <<>>, login |-> "none", credentials |-> <<>>]

\* the credentials typed into the login form
ClientLogins == {<<EmailUserUpper, "pw1">>, <<EmailUser, "bad">>}

\* useEffect(..., []): read localStorage; with a stored token setToken and
\* fetch /api/auth/me, without one setLoading(false)
Mount ==
    /\ ~client.mounted
    /\ client' = IF localStorage # <<>>
                 THEN [client EXCEPT !.mounted = TRUE, !.token = localStorage,
                                     !.startup = "pending", !.storedToken = localStorage]
                 ELSE [client EXCEPT !.mounted = TRUE, !.loading = FALSE,
                                     !.startup = "settled"]
    /\ UNCHANGED <<users, sessions, tables, now, sessCount, userCount, req, issued, pre,
                   localStorage>>

\* the fetch of the start-up check reaches the server
StartupFetch ==
    /\ client.startup = "pending" /\ req[MeSlot].pc = "idle"
    /\ StartMe(MeSlot, Bearer(client.storedToken[1]))

\* .then(data => ...).finally(...) of the start-up check
StartupThen ==
    /\ client.startup = "pending" /\ req[MeSlot].kind = "me" /\ req[MeSlot].pc = "done"
    /\ IF req[MeSlot].status = 200
       THEN /\ client' = [client EXCEPT !.user = req[MeSlot].out.user, !.loading = FALSE,
                                        !.startup = "settled"]
            /\ UNCHANGED localStorage
       ELSE /\ client' = [client EXCEPT !.token = <<>>, !.loading = FALSE,
                                        !.startup = "settled"]
            /\ localStorage' = <<>>
    /\ req' = [req EXCEPT ![MeSlot] = IdleReq]
    /\ UNCHANGED <<users, sessions, tables, now, sessCount, userCount, issued, pre>>

\* .catch(() => ...).finally(...) of the start-up check: the fetch was rejected
StartupCatch ==
    /\ client.startup = "pending" /\ req[MeSlot].pc = "idle"
    /\ client' = [client EXCEPT !.token = <<>>, !.loading = FALSE, !.startup = "settled"]
    /\ localStorage' = <<>>
    /\ UNCHANGED <<users, sessions, tables, now, sessCount, userCount, req, issued, pre>>

\* login(email, password) up to its first await
Login(email, password) ==
    /\ client.mounted /\ client.login = "none"
    /\ client' = [client EXCEPT !.login = "pending", !.credentials = <<email, password>>]
    /\ UNCHANGED <<users, sessions, tables, now, sessCount, userCount, req, issued, pre,
                   localStorage>>

\* the fetch of login reaches the server
LoginFetch ==
    /\ client.login = "pending" /\ req[SigninSlot].pc = "idle"
    /\ StartSignin(SigninSlot, client.credentials[1], client.credentials[2])

\* login after await response.json()
LoginThen ==
    /\ client.login = "pending" /\ req[SigninSlot].kind = "signin" /\ req[SigninSlot].pc = "done"
    /\ IF req[SigninSlot].status = 200
       THEN /\ client' = [client EXCEPT !.user = req[SigninSlot].out.user,
                                        !.token = req[SigninSlot].out.token,
                                        !.login = "none", !.credentials = <<>>]
            /\ localStorage' = req[SigninSlot].out.token
       ELSE /\ client' = [client EXCEPT !.login = "none", !.credentials = <<>>]
            /\ UNCHANGED localStorage
    /\ req' = [req EXCEPT ![SigninSlot] = IdleReq]
    /\ UNCHANGED <<users, sessions, tables, now, sessCount, userCount, issued, pre>>

\* catch (error) { return false } of login: the fetch was rejected
LoginCatch ==
    /\ client.login = "pending" /\ req[SigninSlot].pc = "idle"
    /\ client' = [client EXCEPT !.login = "none", !.credentials = <<>>]
    /\ UNCHANGED <<users, sessions, tables, now, sessCount, userCount, req, issued, pre,
                   localStorage>>

\* logout(): setUser(null); setToken(null); localStorage.removeItem('authToken')
Logout ==
    /\ client.mounted
    /\ client' = [client EXCEPT !.user = <<>>, !.token = <<>>]
    /\ localStorage' = <<>>
    /\ UNCHANGED <<users, sessions, tables, now, sessCount, userCount, req, issued, pre>>

\* the page is loaded again while no fetch is pending: the component state
\* starts over, localStorage stays
Reload ==
    /\ client.mounted /\ client.startup # "pending" /\ client.login # "pending"
    /\ client' = ClientInit
    /\ UNCHANGED <<users, sessions, tables, now, sessCount, userCount, req, issued, pre,
                   localStorage>>

\* ------------------------------------------------------------------- clock
Tick ==
    /\ now < MaxTime
    /\ now' = now + 1
    /\ UNCHANGED <<users, sessions, tables, sessCount, userCount, req, issued, pre, client, localStorage>>

\* ----------------------------------------------------------- initial state
\* row i of business table k (0 leads, 1 accounts, 2 active_deals, 3 contacts);
\* createdAt is distinct over all rows, createdBy runs over admin, user and NULL
Row(k, i) == [id |-> i, createdBy |-> (i + k) % 3, createdAt |-> 4 * i + k]

Rows(k, n) == {Row(k, i) : i \in 1 .. n}

InitAuth ==
    /\ users = SeedUsers
    /\ sessions = {}
    /\ now = 1
    /\ sessCount = 0
    /\ userCount = 2
    /\ req = [r \in Reqs |-> IdleReq]
    /\ issued = {}
    /\ pre = [users |-> SeedUsers, sessions |-> {}]
    /\ client = ClientInit
    /\ localStorage = <<>>

Init ==
    /\ InitAuth
    /\ leads = Rows(0, 2)
    /\ accounts = Rows(1, 2)
    /\ active_deals = Rows(2, 1)
    /\ contacts = Rows(3, 1)

InitMetrics ==
    /\ InitAuth
    /\ \E n \in 0 .. MaxRows + 2 : leads = Rows(0, n)
    /\ \E n \in 0 .. MaxRows + 2 : accounts = Rows(1, n)
    /\ \E n \in 0 .. MaxRows + 2 : active_deals = Rows(2, n)
    /\ \E n \in 0 .. MaxRows : contacts = Rows(3, n)

\* ----------------------------------------------------------- specifications
Signin(r) == SigninGet(r) \/ SigninDeactivate(r) \/ SigninInsert(r) \/ SigninLogin(r)

Metrics(r) == MetricsGet(r) \/ MetricsCount(r) \/ MetricsActivities(r)

Create(r) == CreateGetAdmin(r) \/ CreateExists(r) \/ CreateInsert(r)

List(r) == ListGetAdmin(r) \/ ListQuery(r)

\* sign-in and identity resolution, one request at a time
NextSeq ==
    \/ \E r \in SeqReqs, b \in SigninBodies : StartSignin(r, b[1], b[2])
    \/ \E r \in SeqReqs, auth \in AuthChoices : StartMe(r, auth)
    \/ \E r \in SeqReqs : Signin(r)
    \/ \E r \in SeqReqs : MeGet(r)
    \/ Tick

SpecSeq == Init /\ [][NextSeq]_vars

\* sign-in and the admin endpoints, one request at a time
NextAdmin ==
    \/ \E r \in SeqReqs, b \in SigninBodies : StartSignin(r, b[1], b[2])
    \/ \E r \in SeqReqs, auth \in AuthChoices, body \in CreateBodies : StartCreate(r, auth, body)
    \/ \E r \in SeqReqs, auth \in AuthChoices : StartList(r, auth)
    \/ \E r \in SeqReqs : Signin(r)
    \/ \E r \in SeqReqs : Create(r)
    \/ \E r \in SeqReqs : List(r)

SpecAdmin == Init /\ [][NextAdmin]_vars

\* the credentials of the seeded accounts
SeedSignins == {<<EmailAdmin, "admin123">>, <<EmailUserUpper, "pw1">>}

\* sign-in and the dashboard metrics over every content of the business tables
NextMetrics ==
    \/ \E r \in SeqReqs, b \in SeedSignins : StartSignin(r, b[1], b[2])
    \/ \E r \in SeqReqs, auth \in AuthChoices : StartMetrics(r, auth)
    \/ \E r \in SeqReqs : Signin(r)
    \/ \E r \in SeqReqs : Metrics(r)

SpecMetrics == InitMetrics /\ [][NextMetrics]_vars

\* every endpoint, one request at a time
NextAll ==
    \/ \E r \in SeqReqs, b \in SigninBodies : StartSignin(r, b[1], b[2])
    \/ \E r \in SeqReqs, auth \in AuthChoices : StartMe(r, auth)
    \/ \E r \in SeqReqs, auth \in AuthChoices : StartMetrics(r, auth)
    \/ \E r \in SeqReqs, auth \in AuthChoices, body \in CreateBodies : StartCreate(r, auth, body)
    \/ \E r \in SeqReqs, auth \in AuthChoices : StartList(r, auth)
    \/ \E r \in SeqReqs : Signin(r) \/ MeGet(r) \/ Metrics(r) \/ Create(r) \/ List(r)
    \/ Tick

SpecAll == Init /\ [][NextAll]_vars

\* sign-ins interleaving at their awaits
Next ==
    \/ \E r \in Reqs, b \in SigninBodies : StartSignin(r, b[1], b[2])
    \/ \E r \in Reqs : Signin(r)

Spec == Init /\ [][Next]_vars

\* the bodies sent by overlapping user creations
RaceBodies == {Body(e, "New", "pw1", "user") : e \in {EmailNewLower, EmailNewUpper}}

\* sign-in and user creation, requests interleaving at their awaits
NextRace ==
    \/ \E r \in Reqs, b \in SeedSignins : StartSignin(r, b[1], b[2])
    \/ \E r \in Reqs, auth \in AuthChoices, body \in RaceBodies : StartCreate(r, auth, body)
    \/ \E r \in Reqs : Signin(r)
    \/ \E r \in Reqs : Create(r)

SpecRace == Init /\ [][NextRace]_vars

\* sign-in and every protected endpoint, one request at a time, tokens ageing
NextToken ==
    \/ \E r \in SeqReqs, b \in SeedSignins : StartSignin(r, b[1], b[2])
    \/ \E r \in SeqReqs, auth \in AuthChoices : StartMe(r, auth)
    \/ \E r \in SeqReqs, auth \in AuthChoices : StartMetrics(r, auth)
    \/ \E r \in SeqReqs, auth \in AuthChoices, body \in RaceBodies : StartCreate(r, auth, body)
    \/ \E r \in SeqReqs, auth \in AuthChoices : StartList(r, auth)
    \/ \E r \in SeqReqs : Signin(r) \/ MeGet(r) \/ Metrics(r) \/ Create(r) \/ List(r)
    \/ Tick

SpecToken == Init /\ [][NextToken]_vars

\* every handler, one request at a time, over a store whose calls can fail
FailSignins == SeedSignins \cup {<<EmailUser, "bad">>}

NextFail ==
    \/ \E r \in SeqReqs, b \in FailSignins : StartSignin(r, b[1], b[2])
    \/ \E r \in SeqReqs, auth \in AuthChoices : StartMe(r, auth)
    \/ \E r \in SeqReqs, auth \in AuthChoices : StartMetrics(r, auth)
    \/ \E r \in SeqReqs, auth \in AuthChoices, body \in RaceBodies : StartCreate(r, auth, body)
    \/ \E r \in SeqReqs, auth \in AuthChoices : StartList(r, auth)
    \/ \E r \in SeqReqs : Signin(r) \/ MeGet(r) \/ Metrics(r) \/ Create(r) \/ List(r)
    \/ \E r \in SeqReqs : StoreReject(r)

SpecFail == Init /\ [][NextFail]_vars

\* one browser page with its AuthProvider against the sign-in and me handlers
NextClient ==
    \/ Mount
    \/ StartupFetch
    \/ MeGet(MeSlot)
    \/ StartupThen
    \/ StartupCatch
    \/ \E c \in ClientLogins : Login(c[1], c[2])
    \/ LoginFetch
    \/ Signin(SigninSlot)
    \/ LoginThen
    \/ LoginCatch
    \/ Logout
    \/ Reload
    \/ Tick

SpecClient == Init /\ [][NextClient]_vars

\* ------------------------------------------------------------------- claims
ActiveOf(userId) == {x \in sessions : x.userId = userId /\ x.isActive = 1}

SessionsOf(userId) == {x \in sessions : x.userId = userId}

\* the request has been answered
Done(r, kind) == req[r].kind = kind /\ req[r].pc = "done"

\* the request carried a token that a sign-in returned and that was less than TTL old
\* when the handler verified it
HeldValidToken(r) ==
    /\ req[r].auth.scheme = "bearer"
    /\ \E i \in issued : i.token = req[r].auth.token[1]
    /\ req[r].at < req[r].auth.token[1].iat + TTL

\* C1: with sign-ins that do not overlap, whenever no request is in flight every
\* user has at most one auth_sessions row with isActive = 1.
C1_AtMostOneActive ==
    Quiescent => \A u \in users : Cardinality(ActiveOf(u.id)) <= 1

\* a second sign-in of a user has completed: two rows, one of them active
C1_Witness ==
    /\ Done(1, "signin") /\ req[1].status = 200
    /\ Cardinality(SessionsOf(req[1].user[1].id)) >= 2
    /\ Cardinality(ActiveOf(req[1].user[1].id)) = 1

\* the auth_sessions row a sign-in request inserted is active
RowActive(rows, q) == \E x \in rows : x.id = q.sessionId /\ x.isActive = 1

\* C2: when two sign-ins of one user overlap so that both run the deactivating
\* UPDATE before either INSERT, the second INSERT leaves the row of the first
\* active beside its own: nothing in the handler excludes two active rows.
C2_RaceLeavesTwoActive ==
    [][\A r1, r2 \in Reqs :
          (/\ r1 # r2
           /\ req[r1].pc = "signin_insert" /\ req'[r1].pc = "signin_login"
           /\ req[r2].kind = "signin" /\ req[r2].pc \in {"signin_login", "done"}
           /\ req[r2].status \in {0, 200}
           /\ req[r2].user = req[r1].user
           /\ RowActive(sessions, req[r2]))
          => (RowActive(sessions', req[r1]) /\ RowActive(sessions', req[r2]))]_vars

\* two session rows of one user are active
C2_Witness ==
    \E x, y \in sessions : x # y /\ x.userId = y.userId /\ x.isActive = 1 /\ y.isActive = 1

\* C3: a token returned by a sign-in, presented to GET /api/auth/me less than 24
\* hours after its issue, is accepted and resolves to the user the sign-in returned.
C3_TokenResolvesToUser ==
    \A r \in Reqs :
        (Done(r, "me") /\ HeldValidToken(r))
        => /\ req[r].status = 200
           /\ \E i \in issued : /\ i.token = req[r].auth.token[1]
                                /\ req[r].out.user = <<i.user>>

\* GET /api/auth/me answered 200 for a token issued in an earlier time unit
C3_Witness ==
    /\ Done(1, "me") /\ HeldValidToken(1) /\ req[1].status = 200
    /\ req[1].at > req[1].auth.token[1].iat
    /\ req[1].out.user[1].id = req[1].auth.token[1].userId

\* the credentials of a sign-in request match no stored user
BadCredentials(r) ==
    \A u \in users :
        \/ u.email # toLowerCase(req[r].body.email)
        \/ u.passwordHash # bcryptHash(req[r].body.password)

\* C4: a sign-in without email or password is answered 400, one with an unknown
\* email or a wrong password 401 "Invalid credentials"; either rejection leaves
\* auth_users and auth_sessions as they were when the request arrived.
C4_RejectedSigninWritesNothing ==
    \A r \in Reqs :
        Done(r, "signin") =>
            /\ (req[r].body.email = Empty \/ req[r].body.password = "") => req[r].status = 400
            /\ (req[r].body.email # Empty /\ req[r].body.password # "" /\ BadCredentials(r))
                   => (req[r].status = 401 /\ req[r].message = "Invalid credentials")
            /\ req[r].status \in {400, 401} => (users = pre.users /\ sessions = pre.sessions)

\* a wrong password for a user who holds an active session
C4_Witness ==
    /\ Done(1, "signin") /\ req[1].status = 401
    /\ \E u \in users : /\ u.email = toLowerCase(req[1].body.email)
                        /\ ActiveOf(u.id) # {}

\* C5: an admin endpoint called with a valid token of a user whose stored role is
\* not 'admin' answers 403 with no data and inserts no auth_users row, whatever
\* the body.
C5_NonAdminForbidden ==
    \A r \in Reqs :
        (/\ Done(r, "create") \/ Done(r, "list")
         /\ HeldValidToken(r)
         /\ \E u \in users : u.id = req[r].auth.token[1].userId /\ u.role # "admin")
        => /\ req[r].status = 403
           /\ req[r].out = NoOut
           /\ users = pre.users

\* a complete body for a new email sent with the token of a created non-admin
C5_Witness ==
    /\ Done(1, "create") /\ req[1].status = 403 /\ HeldValidToken(1)
    /\ req[1].body = Body(EmailOther, "New", "pw1", "user")
    /\ req[1].auth.token[1].role = "root"
    /\ \A u \in users : u.email # EmailOther

\* the request passed the role gate and the validation of the body
AdminSentCompleteBody(r) ==
    /\ HeldValidToken(r)
    /\ \E u \in users : u.id = req[r].auth.token[1].userId /\ u.role = "admin"
    /\ req[r].body.email # Empty /\ req[r].body.displayName # "" /\ req[r].body.password # ""

\* C6: creating a user whose email equals, ignoring case, that of a user already
\* stored fails with 400 "User already exists" and leaves auth_users unchanged.
C6_DuplicateEmailRejected ==
    \A r \in Reqs :
        (/\ Done(r, "create")
         /\ AdminSentCompleteBody(r)
         /\ \E u \in pre.users : toLowerCase(u.email) = toLowerCase(req[r].body.email))
        => /\ req[r].status = 400
           /\ req[r].message = "User already exists"
           /\ users = pre.users

\* "A@x" is refused after "a@x" was created through the endpoint
C6_Witness ==
    /\ Done(1, "create") /\ req[1].status = 400 /\ req[1].message = "User already exists"
    /\ req[1].body.email = EmailNewUpper
    /\ \E u \in users : u.id > Cardinality(SeedUsers) /\ u.email = EmailNewLower

\* C7: no two auth_users rows have emails equal under case-insensitive comparison.
C7_EmailsUnique ==
    \A u, v \in users : u # v => toLowerCase(u.email) # toLowerCase(v.email)

\* the rows of a table created by a user
Own(table, userId) == {row \in table : row.createdBy = userId}

\* the user a metrics request resolved
Resolved(r) == CHOOSE u \in users : u.id = req[r].auth.token[1].userId

\* C8: the four counts of GET /api/dashboard/metrics are the numbers of rows
\* created by the caller when the caller is no admin, and the totals for an admin.
C8_CountsScoped ==
    \A r \in Reqs :
        (Done(r, "metrics") /\ HeldValidToken(r)) =>
            /\ req[r].status = 200
            /\ LET m == req[r].out.metrics[1]
                   u == Resolved(r)
               IN  IF u.role # "admin"
                   THEN /\ m.leads = Cardinality(Own(leads, u.id))
                        /\ m.accounts = Cardinality(Own(accounts, u.id))
                        /\ m.deals = Cardinality(Own(active_deals, u.id))
                        /\ m.contacts = Cardinality(Own(contacts, u.id))
                   ELSE /\ m.leads = Cardinality(leads)
                        /\ m.accounts = Cardinality(accounts)
                        /\ m.deals = Cardinality(active_deals)
                        /\ m.contacts = Cardinality(contacts)

\* a non-admin whose counts are positive and below the totals
C8_Witness ==
    /\ Done(1, "metrics") /\ req[1].status = 200 /\ req[1].out.userRole = "user"
    /\ req[1].out.metrics[1].leads > 0 /\ req[1].out.metrics[1].leads < Cardinality(leads)
    /\ req[1].out.metrics[1].contacts > 0
    /\ req[1].out.metrics[1].contacts < Cardinality(contacts)

\* the LIMIT most recent of a set of rows
Recent(rows) == OrderDescLimit(rows, LIMIT)

\* C9: recentActivities is the 10 most recent lead, account and deal rows created
\* by the caller when the caller is no admin, and the 10 most recent of all rows
\* for an admin.
C9_ActivitiesScoped ==
    \A r \in Reqs :
        (Done(r, "metrics") /\ req[r].status = 200) =>
            LET u == Resolved(r)
            IN  req[r].out.activities =
                    IF u.role # "admin"
                    THEN Recent(Tag("lead", Own(leads, u.id))
                                \cup Tag("account", Own(accounts, u.id))
                                \cup Tag("deal", Own(active_deals, u.id)))
                    ELSE Recent(Tag("lead", leads) \cup Tag("account", accounts)
                                \cup Tag("deal", active_deals))

\* C10: every protected endpoint answers 401 to a request without a Bearer header
\* and to one whose token has a wrong signature or has expired.
C10_Unauthenticated401 ==
    \A r \in Reqs :
        (/\ req[r].kind \in {"me", "metrics", "create", "list"} /\ req[r].pc = "done"
         /\ \/ req[r].auth.scheme # "bearer"
            \/ req[r].auth.token[1].sig # "secret"
            \/ req[r].at >= req[r].auth.token[1].exp)
        => req[r].status = 401

\* the auth_sessions row holding the token of the request has been deactivated
TokenSuperseded(r) ==
    /\ \E x \in sessions : x.tokenHash = req[r].auth.token[1] /\ x.isActive = 0
    /\ \A x \in sessions : x.tokenHash = req[r].auth.token[1] => x.isActive = 0

\* C11: a token returned by a sign-in is accepted by every protected endpoint
\* until 24 hours after its issue, whatever auth_sessions holds: also after a
\* later sign-in of the user has set the row of the token to isActive = 0.
C11_AcceptedWhateverTheLedger ==
    \A r \in Reqs :
        (/\ req[r].kind \in {"me", "metrics", "create", "list"} /\ req[r].pc = "done"
         /\ HeldValidToken(r))
        => /\ req[r].status \notin {401, 500}
           /\ req[r].kind \in {"me", "metrics"} => req[r].status = 200
           /\ req[r].kind = "me"
                  => req[r].out.user = <<Profile(findById(req[r].auth.token[1].userId)[1])>>
           /\ req[r].kind = "list"
                  => req[r].status = (IF req[r].auth.token[1].role = "admin" THEN 200 ELSE 403)

\* the first token of a user answered 200 after the user's second sign-in
C11_Witness ==
    /\ Done(1, "me") /\ HeldValidToken(1) /\ TokenSuperseded(1)
    /\ req[1].status = 200
    /\ ActiveOf(req[1].auth.token[1].userId) # {}

\* the users whose email and password the sign-in request sent
Accepted(q) ==
    {u \in users : /\ u.email = toLowerCase(q.body.email)
                   /\ u.passwordHash = bcryptHash(q.body.password)}

\* the step is one of a sign-in with accepted credentials and writes, at most, the
\* auth_sessions rows and the lastLogin of the user who signs in
SigninWrites(r) ==
    /\ req[r].kind = "signin" /\ req[r].pc \in {"signin_update", "signin_insert", "signin_login"}
    /\ \E a \in Accepted(req[r]) :
          /\ {x \in sessions' : x.userId # a.id} = {x \in sessions : x.userId # a.id}
          /\ \A v \in users' :
                \/ v \in users
                \/ v.id = a.id /\ v = [a EXCEPT !.lastLogin = v.lastLogin]

\* the step is the insert of a create-user request answered 200 and adds one row
CreateWrites(r) ==
    /\ req[r].kind = "create" /\ req'[r].pc = "done" /\ req'[r].status = 200
    /\ sessions' = sessions
    /\ \E v \in users' : v \notin users /\ users' = users \cup {v}

\* C12: also when store calls can fail, a step changes persisted state only as a
\* write of a sign-in whose credentials were accepted (auth_sessions rows of that
\* user, lastLogin of that user) or as the insert of a create-user request
\* answered 200 (one new auth_users row); no step of GET /api/auth/me,
\* /api/dashboard/metrics or /api/admin/users changes auth_users or
\* auth_sessions, the business tables never change, and every auth_users row
\* stays, with its email, role and password hash.
C12_Frame ==
    [][/\ tables' = tables
       /\ \A u \in users : \E v \in users' :
              /\ v.id = u.id /\ v.email = u.email
              /\ v.role = u.role /\ v.passwordHash = u.passwordHash
       /\ \A r \in Reqs :
              (req'[r] # req[r] /\ req'[r].kind \in {"me", "metrics", "list"})
              => (users' = users /\ sessions' = sessions)
       /\ (users' # users \/ sessions' # sessions)
              => \E r \in Reqs : SigninWrites(r) \/ CreateWrites(r)]_vars

\* a sign-in has written its session row and its lastLogin, an administrator has
\* created a user, and a GET request has been answered after both
C12_Witness ==
    /\ \E u \in users : u.lastLogin # NULL /\ ActiveOf(u.id) # {}
    /\ \E u \in users : u \notin SeedUsers /\ u.id \notin {v.id : v \in SeedUsers}
    /\ \E r \in Reqs : req[r].kind \in {"me", "metrics", "list"} /\ req[r].pc = "done"
                         /\ req[r].status = 200

\* the statement of C12 as it was made: a sign-in that is not answered 200 has
\* left auth_users and auth_sessions as they were when it arrived
C12_OnlySuccessfulSigninWrites ==
    \A r \in Reqs :
        (Done(r, "signin") /\ req[r].status # 200)
        => (users = pre.users /\ sessions = pre.sessions)

\* what the client receives
Response(r) == [status |-> req[r].status, message |-> req[r].message, out |-> req[r].out]

\* an answered sign-in that sent both fields, with an email no user has
UnknownEmail(r) ==
    /\ Done(r, "signin") /\ req[r].body.email # Empty /\ req[r].body.password # ""
    /\ \A u \in users : u.email # toLowerCase(req[r].body.email)

\* an answered sign-in that sent the email of a user and another password
WrongPassword(r) ==
    /\ Done(r, "signin") /\ req[r].body.email # Empty /\ req[r].body.password # ""
    /\ \E u \in users : /\ u.email = toLowerCase(req[r].body.email)
                        /\ u.passwordHash # bcryptHash(req[r].body.password)

\* C13: a sign-in with an email of no user and a sign-in with the email of a
\* user and a wrong password receive the same response, status 401 and message
\* "Invalid credentials" with no further field, and no step of either changes
\* auth_users or auth_sessions.
C13_RejectionsIndistinguishable ==
    /\ [](\A r1, r2 \in Reqs :
            (UnknownEmail(r1) /\ WrongPassword(r2))
            => /\ Response(r1) = Response(r2)
               /\ Response(r1) = [status |-> 401, message |-> "Invalid credentials",
                                  out |-> NoOut])
    /\ [][\A r \in Reqs :
            (/\ req'[r] # req[r] /\ req'[r].kind = "signin"
             /\ \/ req'[r].pc = "signin_get"
                \/ req'[r].pc = "done" /\ req'[r].status = 401)
            => (users' = users /\ sessions' = sessions)]_vars

\* both rejections have been answered, while the user named in one of them holds
\* an active session
C13_Witness ==
    /\ \E r1, r2 \in Reqs : UnknownEmail(r1) /\ WrongPassword(r2)
    /\ \E x \in sessions : x.isActive = 1

\* C14: in every handler a request whose store call was rejected is answered
\* with status 500.
C14_StoreFailureAnswered500 ==
    \A r \in Reqs : (req[r].pc = "done" /\ req[r].storeError) => req[r].status = 500

\* C15: every auth_users row has role "user" or "admin", whatever bodies the
\* create-user requests carried.
C15_RolesEnumerated ==
    \A u \in users : u.role \in {"user", "admin"}

\* the tokens that sign-ins of the user returned
IssuedTo(userId) == {i.token : i \in {j \in issued : j.user.id = userId}}

\* the row is the latest inserted for its user and stores the latest token
\* returned to that user
LatestOf(x) ==
    /\ \A y \in SessionsOf(x.userId) : y.id <= x.id
    /\ x.tokenHash \in IssuedTo(x.userId)
    /\ \A t \in IssuedTo(x.userId) : t.iat <= x.tokenHash.iat

\* C16: with sign-ins that do not overlap and a store that does not fail,
\* whenever no request is in flight every user who has signed in successfully
\* has exactly one auth_sessions row with isActive = 1, the row that the
\* user's most recent successful sign-in inserted, storing the token that
\* sign-in returned; and no step sets a row with isActive = 0 back to 1.
C16_OneActiveLatest ==
    /\ [](Quiescent =>
            /\ \A u \in users :
                  IssuedTo(u.id) # {}
                  => /\ Cardinality(ActiveOf(u.id)) = 1
                     /\ \A x \in ActiveOf(u.id) : LatestOf(x)
            /\ \A r \in Reqs :
                  (Done(r, "signin") /\ req[r].status = 200)
                  => \A x \in ActiveOf(req[r].out.user[1].id) :
                        x.id = req[r].sessionId /\ x.tokenHash = req[r].out.token[1])
    /\ [][\A x \in sessions : \A y \in sessions' :
            (y.id = x.id /\ x.isActive = 0) => y.isActive = 0]_vars

\* a user has signed in twice at different times: the earlier row is inactive,
\* the later one is active
C16_Witness ==
    /\ Quiescent
    /\ \E u \in users : \E x, y \in SessionsOf(u.id) :
          /\ x.isActive = 0 /\ y.isActive = 1 /\ x.id < y.id
          /\ x.tokenHash.iat < y.tokenHash.iat
          /\ {x.tokenHash, y.tokenHash} \subseteq IssuedTo(u.id)

\* no fetch of the AuthProvider is pending
NoFetchPending == client.startup # "pending" /\ client.login # "pending"

\* C17: whenever no fetch of the AuthProvider is pending, user is set only if
\* token is set, and token equals localStorage 'authToken'.
C17_ClientStateConsistent ==
    (client.mounted /\ NoFetchPending)
    => /\ client.user # <<>> => client.token # <<>>
       /\ client.token = localStorage

====
